---- MODULE Spec2Model ----
(***************************************************************************)
(* generate_games_js.py: the board-game ownership pipeline.                *)
(*                                                                         *)
(* Python strings are sequences of one-character strings, so that strip,   *)
(* isdigit, int, str, casefold, js_escape and string comparison are        *)
(* computed character by character.  An Optional value is a sequence of    *)
(* length 0 (None) or 1 (the value).                                       *)
(***************************************************************************)
EXTENDS Integers, Sequences, FiniteSets, TLC

VARIABLES
    token,          \* os.getenv("BGG_TOKEN"): None or a string
    users_exists,   \* os.path.exists(users_path)
    prior,          \* games.js as it was before the run (never written)
    snapshot,       \* games.js on disk
    writes,         \* history: number of times games.js was opened for writing
    entry,          \* the function the run enters: main, or one function alone
    pc,             \* position: start, call, request, return, parse, exit
    exit_status,    \* -1 while running; main's exit status; 0/1 for a lone call
    error,          \* the exception that ended the run, if any
    bgg_users,      \* main: the parsed usernames
    user_idx,       \* main: index of the username being fetched
    game_to_owners, \* main: game id -> set of usernames
    fetched,        \* history: username -> ids its collection fetch returned
    url,            \* http_get_xml_text: the endpoint
    attempt,        \* http_get_xml_text: loop iterations started
    last_status,    \* http_get_xml_text: Optional status of the last response
    responses,      \* history: <<status, body kind>> of this call's responses
    sleeps,         \* history: backoff sleeps of this call
    xml_text,       \* the text http_get_xml_text returned: "xml" or "garbage"
    net_used,       \* history: some request was issued during the run
    ids,            \* fetch_primary_names: the ids argument
    chunk_size,     \* fetch_primary_names: the chunk_size argument
    chunk_idx,      \* fetch_primary_names: index of the chunk being looked up
    out,            \* fetch_primary_names: game id -> primary name
    batches,        \* history: the chunks requested so far
    batch_results,  \* history: the names each answered chunk contributed
    lookups,        \* history: the item elements of each lookup response
    games_out,      \* main: the records handed to write_games_js
    raw_items,      \* fetch_owned_game_ids_for_user alone: objectid attributes
    owned           \* fetch_owned_game_ids_for_user alone: Optional result

envVars  == <<token, users_exists, prior>>
endVars  == <<pc, exit_status, error, snapshot, writes>>
mainVars == <<bgg_users, user_idx, game_to_owners, fetched>>
httpVars == <<url, attempt, last_status, responses, sleeps>>
resVars  == <<ids, chunk_size, chunk_idx, out, batches, batch_results, lookups>>
pureVars == <<raw_items, owned>>
vars == <<envVars, endVars, entry, mainVars, httpVars, xml_text, net_used,
          resVars, games_out, pureVars>>

----------------------------------------------------------------------------
(* Bounds of the model *)

\* entries of the users.js object literal
MaxKeys == 2
\* item elements of one collection response
MaxItems == 2
\* ids handed to fetch_primary_names when it is exercised alone
MaxIds == 3
\* chunk sizes tried when fetch_primary_names is exercised alone
MaxChunk == 2

(* Program constants *)
max_attempts == 25
DefaultChunkSize == 20

BGG_COLLECTION_URL == "https://boardgamegeek.com/xmlapi2/collection"
BGG_THING_URL == "https://boardgamegeek.com/xmlapi2/thing"

----------------------------------------------------------------------------
(* Python values *)

None == <<>>
Some(x) == <<x>>
\* truth value of an Optional[str]: neither None nor ""
Truthy(o) == o # None /\ o[1] # <<>>

EmptyMap == [k \in {} |-> <<>>]
Lookup(m, k) == IF k \in DOMAIN m THEN Some(m[k]) ELSE None
Put(m, k, v) == [x \in DOMAIN m \cup {k} |-> IF x = k THEN v ELSE m[x]]

NoError == [kind |-> "none", url |-> "", status |-> None, attempts |-> 0]

SeqsUpTo(S, n) == UNION {[1..k -> S] : k \in 0..n}

\* code points of the characters strings are compared on
Ord == (" " :> 32) @@ ("\"" :> 34) @@ ("A" :> 65) @@ ("C" :> 67)
       @@ ("a" :> 97) @@ ("b" :> 98) @@ ("c" :> 99)

\* Python's < on str: lexicographic by code point
RECURSIVE StrLess(_, _)
StrLess(s, t) ==
    IF t = <<>> THEN FALSE
    ELSE IF s = <<>> THEN TRUE
    ELSE IF Head(s) = Head(t) THEN StrLess(Tail(s), Tail(t))
    ELSE Ord[Head(s)] < Ord[Head(t)]

\* str.casefold, on the characters of the model
CasefoldChar(c) == IF c = "A" THEN "a" ELSE IF c = "C" THEN "c" ELSE c
Casefold(s) == [i \in 1..Len(s) |-> CasefoldChar(s[i])]

IsSpace(c) == c \in {" ", "\t", "\n", "\r"}
RECURSIVE LStrip(_)
LStrip(s) == IF s # <<>> /\ IsSpace(Head(s)) THEN LStrip(Tail(s)) ELSE s
RECURSIVE RStrip(_)
RStrip(s) ==
    IF s # <<>> /\ IsSpace(s[Len(s)]) THEN RStrip(SubSeq(s, 1, Len(s) - 1)) ELSE s
Strip(s) == RStrip(LStrip(s))

DecimalChars == {"0", "1", "2", "3", "4", "5", "6", "7", "8", "9"}
DigitValue == ("0" :> 0) @@ ("1" :> 1) @@ ("2" :> 2) @@ ("3" :> 3) @@ ("4" :> 4)
              @@ ("5" :> 5) @@ ("6" :> 6) @@ ("7" :> 7) @@ ("8" :> 8) @@ ("9" :> 9)
DigitChar == <<"0", "1", "2", "3", "4", "5", "6", "7", "8", "9">>

\* str.isdigit: every character is a decimal digit or another Unicode digit
\* ("sup2" stands for the one character U+00B2, SUPERSCRIPT TWO), and there
\* is at least one character
IsDigit(s) == s # <<>> /\ \A i \in 1..Len(s) : s[i] \in DecimalChars \cup {"sup2"}

\* int(s) raises ValueError on a character that is no decimal digit
IntRaises(s) == s = <<>> \/ \E i \in 1..Len(s) : s[i] \notin DecimalChars

RECURSIVE IntOf(_)
IntOf(s) ==
    IF s = <<>> THEN 0
    ELSE IntOf(SubSeq(s, 1, Len(s) - 1)) * 10 + DigitValue[s[Len(s)]]

\* str(n) of a non-negative int
RECURSIVE DecStr(_)
DecStr(n) ==
    IF n < 10 THEN <<DigitChar[n + 1]>>
    ELSE DecStr(n \div 10) \o <<DigitChar[(n % 10) + 1]>>

\* de-dupe preserve order
RECURSIVE DedupeFrom(_, _)
DedupeFrom(xs, seen) ==
    IF xs = <<>> THEN <<>>
    ELSE IF Head(xs) \in seen THEN DedupeFrom(Tail(xs), seen)
    ELSE <<Head(xs)>> \o DedupeFrom(Tail(xs), seen \cup {Head(xs)})
Dedupe(xs) == DedupeFrom(xs, {})

----------------------------------------------------------------------------
(* users.js *)

\* bytes(s, "utf-8").decode("unicode_escape"), on ASCII keys: a backslash
\* and the character after it become one character
EscapedChar(c) ==
    IF c = "n" THEN "\n" ELSE IF c = "t" THEN "\t" ELSE IF c = "r" THEN "\r" ELSE c
RECURSIVE UnescapeJsString(_)
UnescapeJsString(s) ==
    IF s = <<>> THEN <<>>
    ELSE IF Head(s) = "\\" /\ Len(s) >= 2
         THEN <<EscapedChar(s[2])>> \o UnescapeJsString(SubSeq(s, 3, Len(s)))
         ELSE <<Head(s)>> \o UnescapeJsString(Tail(s))

RECURSIVE StrippedKeys(_)
StrippedKeys(keys) ==
    IF keys = <<>> THEN <<>>
    ELSE LET k == Strip(UnescapeJsString(Head(keys)))
         IN  (IF k # <<>> THEN <<k>> ELSE <<>>) \o StrippedKeys(Tail(keys))

\* keys: the key group of each entry the pattern finds in users.js, in order
ParseUsernames(keys) == Dedupe(StrippedKeys(keys))

\* the keys of the entries a users.js may hold
RawKeys == {<<"a">>, <<"b">>, <<"\\", "t", "a">>, <<" ">>}
UsersFiles == SeqsUpTo(RawKeys, MaxKeys)

----------------------------------------------------------------------------
(* /collection *)

\* if oid and oid.isdigit()
KeepOid(o) == Truthy(o) /\ IsDigit(o[1])

CollectionRaises(items) ==
    \E i \in 1..Len(items) : KeepOid(items[i]) /\ IntRaises(items[i][1])

RECURSIVE RawIds(_)
RawIds(items) ==
    IF items = <<>> THEN <<>>
    ELSE (IF KeepOid(Head(items)) THEN <<IntOf(Head(items)[1])>> ELSE <<>>)
         \o RawIds(Tail(items))

\* the list fetch_owned_game_ids_for_user returns for the item elements'
\* objectid attributes, when int() does not raise
OwnedGameIds(items) == Dedupe(RawIds(items))

\* objectid attributes a collection response may carry
CollectionOids ==
    {None, Some(<<>>), Some(<<"0">>), Some(<<"5">>), Some(<<"0", "5">>),
     Some(<<"7">>), Some(<<"-", "5">>), Some(<<"sup2">>)}
CollectionBodies == SeqsUpTo(CollectionOids, MaxItems)

\* variant: the entry is overwritten instead of added to
MergeOverwrite(gto, gid, u) == Put(gto, gid, {u})

\* game_to_owners.setdefault(gid, set()).add(username)
Merge(gto, gid, u) ==
    IF gid \in DOMAIN gto THEN Put(gto, gid, gto[gid] \cup {u}) ELSE Put(gto, gid, {u})

RECURSIVE MergeAll(_, _, _)
MergeAll(gto, gids, u) ==
    IF gids = <<>> THEN gto ELSE MergeAll(Merge(gto, Head(gids), u), Tail(gids), u)

----------------------------------------------------------------------------
(* /thing *)

\* variant: a last chunk shorter than n is dropped
RECURSIVE ChunkedNoTail(_, _)
ChunkedNoTail(xs, n) ==
    IF Len(xs) < n THEN <<>>
    ELSE <<SubSeq(xs, 1, n)>> \o ChunkedNoTail(SubSeq(xs, n + 1, Len(xs)), n)

RECURSIVE Chunked(_, _)
Chunked(xs, n) ==
    IF xs = <<>> THEN <<>>
    ELSE IF Len(xs) <= n THEN <<xs>>
    ELSE <<SubSeq(xs, 1, n)>> \o Chunked(SubSeq(xs, n + 1, Len(xs)), n)

\* variant: the first name element is taken whatever its type
PrimaryNameAnyType(names) == IF names = <<>> THEN None ELSE Head(names).value

\* the value of the first name element whose type is "primary", else None
RECURSIVE PrimaryName(_)
PrimaryName(names) ==
    IF names = <<>> THEN None
    ELSE IF Head(names).type = "primary" THEN Head(names).value
    ELSE PrimaryName(Tail(names))

ThingRaises(items) ==
    \E i \in 1..Len(items) : KeepOid(items[i].id) /\ IntRaises(items[i].id[1])

\* the item loop of fetch_primary_names, over one response, updating out
RECURSIVE ParseThing(_, _)
ParseThing(items, acc) ==
    IF items = <<>> THEN acc
    ELSE LET item == Head(items)
             primary == PrimaryName(item.names)
         IN  IF ~KeepOid(item.id) THEN ParseThing(Tail(items), acc)
             ELSE IF Truthy(primary)
                  THEN ParseThing(Tail(items), Put(acc, IntOf(item.id[1]), primary[1]))
                  ELSE ParseThing(Tail(items), acc)

NameCa == <<"C", "a">>
Nameca == <<"c", "a">>
NameAq == <<"a", "\"">>
Alt(v) == [type |-> "alternate", value |-> Some(v)]
Prim(v) == [type |-> "primary", value |-> Some(v)]
PrimNoValue == [type |-> "primary", value |-> None]

\* the name elements an item element of a lookup response may hold
ItemShapes ==
    << <<Alt(NameCa)>>,
       <<Prim(<<>>)>>,
       <<PrimNoValue, Prim(NameCa)>>,
       <<Alt(NameAq), Prim(NameCa)>>,
       <<Prim(Nameca), Prim(NameCa)>>,
       <<Prim(NameAq)>> >>

RECURSIVE ItemsFor(_, _, _)
ItemsFor(ch, f, i) ==
    IF i > Len(ch) THEN <<>>
    ELSE (IF f[i] = 0 THEN <<>>
          ELSE <<[id |-> Some(DecStr(ch[i])), names |-> ItemShapes[f[i]]]>>)
         \o ItemsFor(ch, f, i + 1)

\* the lookup responses for the ids of chunk ch: an item element for some of
\* the ids asked for, each with one of the shapes, and possibly an item
\* element without an id attribute
ThingBodies(ch) ==
    { (IF junk THEN <<[id |-> None, names |-> <<Prim(NameCa)>>]>> ELSE <<>>)
      \o ItemsFor(ch, f, 1) :
        f \in [1..Len(ch) -> 0..Len(ItemShapes)], junk \in BOOLEAN }

----------------------------------------------------------------------------
(* main: assembling and writing the records *)

RECURSIVE SortedIds(_)
SortedIds(S) ==
    IF S = {} THEN <<>>
    ELSE LET m == CHOOSE x \in S : \A y \in S : x <= y
         IN  <<m>> \o SortedIds(S \ {m})

\* sorted(game_to_owners[gid])
RECURSIVE SortedOwners(_)
SortedOwners(S) ==
    IF S = {} THEN <<>>
    ELSE LET m == CHOOSE x \in S : \A y \in S \ {x} : StrLess(x, y)
         IN  <<m>> \o SortedOwners(S \ {m})

RECURSIVE BuildGames(_, _, _)
BuildGames(all_ids, id_to_name, gto) ==
    IF all_ids = <<>> THEN <<>>
    ELSE LET gid == Head(all_ids)
             name == Lookup(id_to_name, gid)
         IN  (IF ~Truthy(name) THEN <<>>
              ELSE <<[id |-> gid, name |-> name[1], owners |-> SortedOwners(gto[gid])]>>)
             \o BuildGames(Tail(all_ids), id_to_name, gto)

\* variant: the name is compared as written
SortKeyRawName(g) == <<g.name, g.id>>

\* key=lambda g: (g["name"].casefold(), g["id"])
SortKey(g) == <<Casefold(g.name), g.id>>
KeyLess(a, b) == StrLess(a[1], b[1]) \/ (a[1] = b[1] /\ a[2] < b[2])

\* list.sort is stable: g goes before the first record whose key is greater
RECURSIVE InsertByKey(_, _)
InsertByKey(g, s) ==
    IF s = <<>> THEN <<g>>
    ELSE IF KeyLess(SortKey(g), SortKey(Head(s))) THEN <<g>> \o s
    ELSE <<Head(s)>> \o InsertByKey(g, Tail(s))

RECURSIVE SortGames(_)
SortGames(gs) ==
    IF gs = <<>> THEN <<>>
    ELSE InsertByKey(gs[Len(gs)], SortGames(SubSeq(gs, 1, Len(gs) - 1)))

RECURSIVE Replace(_, _, _)
Replace(s, c, r) ==
    IF s = <<>> THEN <<>>
    ELSE (IF Head(s) = c THEN r ELSE <<Head(s)>>) \o Replace(Tail(s), c, r)

js_escape(s) ==
    Replace(Replace(Replace(Replace(Replace(s,
        "\\", <<"\\", "\\">>),
        "\"", <<"\\", "\"">>),
        "\n", <<"\\", "n">>),
        "\r", <<"\\", "r">>),
        "\t", <<"\\", "t">>)

Header ==
    <<"// AUTO-GENERATED. DO NOT EDIT.", "// Generated by generate_games_js.py",
      "// generated_at: <date>", "", "window.GAMES = [">>

\* the file write_games_js leaves: the header lines, then one row per record
WriteGamesJs(games) ==
    [exists |-> TRUE,
     header |-> Header,
     rows |-> [i \in 1..Len(games) |->
                 [id |-> DecStr(games[i].id),
                  name |-> js_escape(games[i].name),
                  owners |-> [j \in 1..Len(games[i].owners) |->
                                js_escape(games[i].owners[j])]]]]

NoFile == [exists |-> FALSE, header |-> <<>>, rows |-> <<>>]
OldFile ==
    [exists |-> TRUE,
     header |-> Header,
     rows |-> <<[id |-> <<"9">>, name |-> <<"o">>, owners |-> << <<"z">> >>]>>]

----------------------------------------------------------------------------
(* How a run ends *)

\* return <code> from main before anything was fetched
Exit(code) ==
    /\ pc' = "exit"
    /\ exit_status' = code
    /\ UNCHANGED <<error, snapshot, writes>>

\* variant: games.js was already opened for writing when the exception came
RaiseAfterTruncating(kind, u, st, n) ==
    /\ pc' = "exit"
    /\ exit_status' = 1
    /\ error' = [kind |-> kind, url |-> u, status |-> st, attempts |-> n]
    /\ snapshot' = [exists |-> TRUE, header |-> <<>>, rows |-> <<>>]
    /\ writes' = writes + 1

\* an exception nothing catches: it leaves every frame and ends the run with
\* status 1; games.js is not touched
Raise(kind, u, st, n) ==
    /\ pc' = "exit"
    /\ exit_status' = 1
    /\ error' = [kind |-> kind, url |-> u, status |-> st, attempts |-> n]
    /\ UNCHANGED <<snapshot, writes>>

\* main from all_ids on, once fetch_primary_names has returned names
FinishMain(all_ids, names, gto) ==
    LET games == SortGames(BuildGames(all_ids, names, gto))
    IN  /\ games_out' = games
        /\ snapshot' = WriteGamesJs(games)
        /\ writes' = writes + 1
        /\ pc' = "exit"
        /\ exit_status' = 0
        /\ error' = error

\* fetch_primary_names returns names: to main, or to whoever called it alone
ReturnNames(all_ids, names, gto) ==
    IF entry = "main" THEN FinishMain(all_ids, names, gto)
    ELSE /\ pc' = "exit"
         /\ exit_status' = 0
         /\ UNCHANGED <<error, snapshot, writes, games_out>>

----------------------------------------------------------------------------
(* http_get_xml_text *)

Statuses == {200, 202, 304, 404, 500}

\* variant: every 2xx status is taken for the queued answer
IsQueuedAny2xx(s) == 200 <= s /\ s < 300
\* if resp.status_code == 202
IsQueued(s) == s = 202
\* variant: only a 5xx status raises
RaisesForServerError(s) == 500 <= s /\ s < 600
\* resp.raise_for_status() raises HTTPError on a 4xx or 5xx status
RaisesForStatus(s) == 400 <= s /\ s < 600
\* variant: one round too many
LoopExhaustedLate(n) == n > max_attempts
\* range(max_attempts) has no value left after n iterations
LoopExhausted(n) == n >= max_attempts

\* the call, up to its first request
BeginHttp(u) ==
    /\ pc' = "request"
    /\ url' = u
    /\ attempt' = 0
    /\ last_status' = None
    /\ responses' = <<>>
    /\ sleeps' = 0

\* a 202: sleep backoff_seconds and go round; after the last round, TimeoutError
HttpNotReady ==
    /\ pc = "request"
    /\ \E s \in Statuses :
         /\ IsQueued(s)
         /\ attempt' = attempt + 1
         /\ last_status' = Some(s)
         /\ responses' = Append(responses, <<s, "none">>)
         /\ sleeps' = sleeps + 1
         /\ IF LoopExhausted(attempt + 1)
            THEN Raise("TimeoutError", url, Some(s), max_attempts)
            ELSE UNCHANGED endVars
    /\ net_used' = TRUE
    /\ UNCHANGED <<envVars, entry, mainVars, url, xml_text, resVars, games_out, pureVars>>

\* a 4xx or 5xx: raise_for_status raises
HttpError ==
    /\ pc = "request"
    /\ \E s \in Statuses :
         /\ ~IsQueued(s)
         /\ RaisesForStatus(s)
         /\ attempt' = attempt + 1
         /\ last_status' = Some(s)
         /\ responses' = Append(responses, <<s, "none">>)
         /\ Raise("HTTPError", url, Some(s), attempt + 1)
    /\ net_used' = TRUE
    /\ UNCHANGED <<envVars, entry, mainVars, url, sleeps, xml_text, resVars, games_out,
                   pureVars>>

\* requests.get itself raises (no connection, timeout): there is no response
HttpConnectionError ==
    /\ pc = "request"
    /\ attempt' = attempt + 1
    /\ Raise("RequestException", url, None, attempt + 1)
    /\ net_used' = TRUE
    /\ UNCHANGED <<envVars, entry, mainVars, url, last_status, responses, sleeps, xml_text,
                   resVars, games_out, pureVars>>

\* any other status: resp.text is what the call is about to return
HttpOk ==
    /\ pc = "request"
    /\ \E s \in Statuses, kind \in {"xml", "garbage"} :
         /\ ~IsQueued(s)
         /\ ~RaisesForStatus(s)
         /\ attempt' = attempt + 1
         /\ last_status' = Some(s)
         /\ responses' = Append(responses, <<s, kind>>)
         /\ xml_text' = kind
    /\ pc' = "return"
    /\ net_used' = TRUE
    /\ UNCHANGED <<envVars, entry, exit_status, error, snapshot, writes, mainVars, url,
                   sleeps, resVars, games_out, pureVars>>

\* return resp.text: the frame of http_get_xml_text is gone
Return ==
    /\ pc = "return"
    /\ pc' = "parse"
    /\ attempt' = 0
    /\ last_status' = None
    /\ responses' = <<>>
    /\ sleeps' = 0
    /\ UNCHANGED <<envVars, entry, exit_status, error, snapshot, writes, mainVars, url,
                   xml_text, net_used, resVars, games_out, pureVars>>

\* ET.fromstring raises ParseError on text that is no XML document
ParseError ==
    /\ pc = "parse"
    /\ xml_text = "garbage"
    /\ Raise("ParseError", url, None, 0)
    /\ UNCHANGED <<envVars, entry, mainVars, httpVars, xml_text, net_used, resVars,
                   games_out, pureVars>>

----------------------------------------------------------------------------
(* fetch_primary_names *)

\* from its first line to its first request, or to its return when ids is empty
EnterFetchPrimaryNames(idlist, cs, gto) ==
    /\ ids' = idlist
    /\ chunk_size' = cs
    /\ out' = EmptyMap
    /\ batch_results' = <<>>
    /\ lookups' = <<>>
    /\ IF Chunked(idlist, cs) = <<>>
       THEN /\ chunk_idx' = 0
            /\ batches' = <<>>
            /\ ReturnNames(idlist, EmptyMap, gto)
            /\ UNCHANGED httpVars
       ELSE /\ chunk_idx' = 1
            /\ batches' = <<Chunked(idlist, cs)[1]>>
            /\ BeginHttp(BGG_THING_URL)
            /\ UNCHANGED <<exit_status, error, snapshot, writes, games_out>>

\* one lookup response parsed: its names go to out, then the next chunk is
\* requested, or out is returned
ThingParsed ==
    /\ pc = "parse"
    /\ url = BGG_THING_URL
    /\ xml_text = "xml"
    /\ \E body \in ThingBodies(Chunked(ids, chunk_size)[chunk_idx]) :
         IF ThingRaises(body)
         THEN /\ Raise("ValueError", url, None, 0)
              /\ UNCHANGED <<httpVars, resVars, games_out>>
         ELSE LET names == ParseThing(body, out)
                  chunks == Chunked(ids, chunk_size)
              IN  /\ out' = names
                  /\ batch_results' = Append(batch_results, ParseThing(body, EmptyMap))
                  /\ lookups' = Append(lookups, body)
                  /\ UNCHANGED <<ids, chunk_size>>
                  /\ IF chunk_idx < Len(chunks)
                     THEN /\ chunk_idx' = chunk_idx + 1
                          /\ batches' = Append(batches, chunks[chunk_idx + 1])
                          /\ BeginHttp(BGG_THING_URL)
                          /\ UNCHANGED <<exit_status, error, snapshot, writes, games_out>>
                     ELSE /\ ReturnNames(ids, names, game_to_owners)
                          /\ UNCHANGED <<chunk_idx, batches, httpVars>>
    /\ UNCHANGED <<envVars, entry, mainVars, xml_text, net_used, pureVars>>

----------------------------------------------------------------------------
(* main *)

\* variant: only an unset variable counts, not an empty one
TokenIsNone(tok) == tok = None
\* if not token
TokenMissing(tok) == ~Truthy(tok)
\* if not bgg_users
NoUsernames(us) == us = <<>>

\* main up to the first collection request, or to return 2
MainStart ==
    /\ pc = "start"
    /\ entry = "main"
    /\ IF TokenMissing(token) \/ ~users_exists
       THEN /\ Exit(2)
            /\ UNCHANGED <<mainVars, httpVars>>
       ELSE \E keys \in UsersFiles :
              LET us == ParseUsernames(keys)
              IN  /\ bgg_users' = us
                  /\ UNCHANGED <<game_to_owners, fetched>>
                  /\ IF NoUsernames(us)
                     THEN /\ Exit(2)
                          /\ UNCHANGED <<user_idx, httpVars>>
                     ELSE /\ user_idx' = 1
                          /\ BeginHttp(BGG_COLLECTION_URL)
                          /\ UNCHANGED <<exit_status, error, snapshot, writes>>
    /\ UNCHANGED <<envVars, entry, xml_text, net_used, resVars, games_out, pureVars>>

\* one collection response parsed: its ids are merged for the username, then
\* the next username is fetched, or the names of all ids are looked up
CollectionParsed ==
    /\ pc = "parse"
    /\ entry = "main"
    /\ url = BGG_COLLECTION_URL
    /\ xml_text = "xml"
    /\ \E body \in CollectionBodies :
         IF CollectionRaises(body)
         THEN /\ Raise("ValueError", url, None, 0)
              /\ UNCHANGED <<mainVars, httpVars, resVars, games_out>>
         ELSE LET got == OwnedGameIds(body)
                  username == bgg_users[user_idx]
                  gto == MergeAll(game_to_owners, got, username)
              IN  /\ game_to_owners' = gto
                  /\ fetched' = Put(fetched, username, {got[i] : i \in 1..Len(got)})
                  /\ UNCHANGED bgg_users
                  /\ IF user_idx < Len(bgg_users)
                     THEN /\ user_idx' = user_idx + 1
                          /\ BeginHttp(BGG_COLLECTION_URL)
                          /\ UNCHANGED <<exit_status, error, snapshot, writes, resVars,
                                         games_out>>
                     ELSE /\ UNCHANGED user_idx
                          /\ EnterFetchPrimaryNames(SortedIds(DOMAIN gto),
                                                    DefaultChunkSize, gto)
    /\ UNCHANGED <<envVars, entry, xml_text, net_used, pureVars>>

Tokens == {None, Some(<<>>), Some(<<"t">>)}

Init ==
    /\ token \in Tokens
    /\ users_exists \in BOOLEAN
    /\ prior \in {NoFile, OldFile}
    /\ snapshot = prior
    /\ writes = 0
    /\ entry = "main"
    /\ pc = "start"
    /\ exit_status = -1
    /\ error = NoError
    /\ bgg_users = <<>>
    /\ user_idx = 0
    /\ game_to_owners = EmptyMap
    /\ fetched = EmptyMap
    /\ url = ""
    /\ attempt = 0
    /\ last_status = None
    /\ responses = <<>>
    /\ sleeps = 0
    /\ xml_text = ""
    /\ net_used = FALSE
    /\ ids = <<>>
    /\ chunk_size = DefaultChunkSize
    /\ chunk_idx = 0
    /\ out = EmptyMap
    /\ batches = <<>>
    /\ batch_results = <<>>
    /\ lookups = <<>>
    /\ games_out = <<>>
    /\ raw_items = <<>>
    /\ owned = None

Next ==
    \/ MainStart
    \/ HttpNotReady
    \/ HttpError
    \/ HttpConnectionError
    \/ HttpOk
    \/ Return
    \/ ParseError
    \/ CollectionParsed
    \/ ThingParsed

Spec == Init /\ [][Next]_vars

----------------------------------------------------------------------------
(* fetch_primary_names called alone, with a chunk size and a list of distinct
   ids in ascending order, as main's sorted(game_to_owners.keys()) is *)

IdLists ==
    {xs \in SeqsUpTo(1..MaxIds, MaxIds) :
        \A i, j \in 1..Len(xs) : i < j => xs[i] < xs[j]}

InitResolver ==
    /\ token = Some(<<"t">>)
    /\ users_exists = TRUE
    /\ prior = NoFile
    /\ snapshot = prior
    /\ writes = 0
    /\ entry = "fetch_primary_names"
    /\ pc = "call"
    /\ exit_status = -1
    /\ error = NoError
    /\ bgg_users = <<>>
    /\ user_idx = 0
    /\ game_to_owners = EmptyMap
    /\ fetched = EmptyMap
    /\ url = ""
    /\ attempt = 0
    /\ last_status = None
    /\ responses = <<>>
    /\ sleeps = 0
    /\ xml_text = ""
    /\ net_used = FALSE
    /\ ids \in IdLists
    /\ chunk_size \in 1..MaxChunk
    /\ chunk_idx = 0
    /\ out = EmptyMap
    /\ batches = <<>>
    /\ batch_results = <<>>
    /\ lookups = <<>>
    /\ games_out = <<>>
    /\ raw_items = <<>>
    /\ owned = None

ResolverCall ==
    /\ pc = "call"
    /\ entry = "fetch_primary_names"
    /\ EnterFetchPrimaryNames(ids, chunk_size, game_to_owners)
    /\ UNCHANGED <<envVars, entry, mainVars, xml_text, net_used, pureVars>>

NextResolver ==
    \/ ResolverCall
    \/ HttpNotReady
    \/ HttpError
    \/ HttpConnectionError
    \/ HttpOk
    \/ Return
    \/ ParseError
    \/ ThingParsed

SpecResolver == InitResolver /\ [][NextResolver]_vars

----------------------------------------------------------------------------
(* fetch_owned_game_ids_for_user called alone *)

InitOwned ==
    /\ token = Some(<<"t">>)
    /\ users_exists = TRUE
    /\ prior = NoFile
    /\ snapshot = prior
    /\ writes = 0
    /\ entry = "fetch_owned_game_ids_for_user"
    /\ pc = "call"
    /\ exit_status = -1
    /\ error = NoError
    /\ bgg_users = <<>>
    /\ user_idx = 0
    /\ game_to_owners = EmptyMap
    /\ fetched = EmptyMap
    /\ url = ""
    /\ attempt = 0
    /\ last_status = None
    /\ responses = <<>>
    /\ sleeps = 0
    /\ xml_text = ""
    /\ net_used = FALSE
    /\ ids = <<>>
    /\ chunk_size = DefaultChunkSize
    /\ chunk_idx = 0
    /\ out = EmptyMap
    /\ batches = <<>>
    /\ batch_results = <<>>
    /\ lookups = <<>>
    /\ games_out = <<>>
    /\ raw_items = <<>>
    /\ owned = None

OwnedCall ==
    /\ pc = "call"
    /\ entry = "fetch_owned_game_ids_for_user"
    /\ BeginHttp(BGG_COLLECTION_URL)
    /\ UNCHANGED <<envVars, entry, exit_status, error, snapshot, writes, mainVars,
                   xml_text, net_used, resVars, games_out, pureVars>>

\* the response parsed: raw_items are the objectid attributes of its item
\* elements, owned the list returned
OwnedParsed ==
    /\ pc = "parse"
    /\ entry = "fetch_owned_game_ids_for_user"
    /\ xml_text = "xml"
    /\ \E body \in CollectionBodies :
         /\ raw_items' = body
         /\ IF CollectionRaises(body)
            THEN /\ Raise("ValueError", url, None, 0)
                 /\ UNCHANGED owned
            ELSE /\ owned' = Some(OwnedGameIds(body))
                 /\ pc' = "exit"
                 /\ exit_status' = 0
                 /\ UNCHANGED <<error, snapshot, writes>>
    /\ UNCHANGED <<envVars, entry, mainVars, httpVars, xml_text, net_used, resVars,
                   games_out>>

NextOwned ==
    \/ OwnedCall
    \/ HttpNotReady
    \/ HttpError
    \/ HttpConnectionError
    \/ HttpOk
    \/ Return
    \/ ParseError
    \/ OwnedParsed

SpecOwned == InitOwned /\ [][NextOwned]_vars

----------------------------------------------------------------------------
(* Properties *)

QueuedUpTo(rs, n) == \A i \in 1..n : rs[i][1] = 202
\* a status of the HTTP error classes 4xx and 5xx
ErrorStatus(s) == s \in 400..599
SuccessStatus(s) == s # 202 /\ ~ErrorStatus(s)
Finished == pc = "exit" /\ exit_status = 0
SeqSet(xs) == {xs[i] : i \in 1..Len(xs)}

\* C1: when one call of http_get_xml_text has been answered 202 exactly k
\* times, k < max_attempts, and then with a successful status, the call is
\* returning the text of that last response, after exactly k + 1 requests
\* (and k backoff sleeps).
C1_RetryThenSuccess ==
    \A k \in 0..(max_attempts - 1) :
        (/\ Len(responses) = k + 1
         /\ QueuedUpTo(responses, k)
         /\ SuccessStatus(responses[k + 1][1]))
        => /\ pc = "return"
           /\ attempt = k + 1
           /\ sleeps = k
           /\ xml_text = responses[k + 1][2]

\* two 202s, then success, for a collection query: three requests
C1_Witness ==
    /\ pc = "return"
    /\ url = BGG_COLLECTION_URL
    /\ Len(responses) = 3
    /\ QueuedUpTo(responses, 2)
    /\ attempt = 3

\* C2: a call never issues more than max_attempts requests; when all
\* max_attempts responses were 202 the call has ended, after exactly
\* max_attempts requests, in the TimeoutError that names the endpoint and the
\* last status; and that error arises in no other way.
C2_Exhaustion ==
    /\ attempt <= max_attempts
    /\ Len(responses) <= max_attempts
    /\ (Len(responses) = max_attempts /\ QueuedUpTo(responses, max_attempts))
       => /\ pc = "exit"
          /\ exit_status = 1
          /\ attempt = max_attempts
          /\ error.kind = "TimeoutError"
          /\ error.url = url
          /\ error.status = Some(202)
          /\ error.attempts = max_attempts
    /\ error.kind = "TimeoutError"
       => /\ Len(responses) = max_attempts
          /\ QueuedUpTo(responses, max_attempts)
          /\ url \in {BGG_COLLECTION_URL, BGG_THING_URL}

C2_Witness ==
    /\ error.kind = "TimeoutError"
    /\ url = BGG_THING_URL
    /\ attempt = max_attempts
    /\ sleeps = max_attempts

\* C3: a response with a 4xx or 5xx status is the last response of its call,
\* at whatever attempt it comes: the run has ended with the HTTPError of that
\* status, not the TimeoutError, no request followed, and the only backoff
\* sleeps are those after the 202s before it.
C3_FatalStatus ==
    \A i \in 1..Len(responses) :
        ErrorStatus(responses[i][1])
        => /\ i = Len(responses)
           /\ attempt = i
           /\ QueuedUpTo(responses, i - 1)
           /\ sleeps = i - 1
           /\ pc = "exit"
           /\ exit_status = 1
           /\ error.kind = "HTTPError"
           /\ error.status = Some(responses[i][1])

\* a 404 after two 202s
C3_Witness ==
    /\ Len(responses) = 3
    /\ responses[3][1] = 404
    /\ error.kind = "HTTPError"
    /\ sleeps = 2

\* some lookup response holds an item element for g whose first name element
\* of type primary exists and has a non-empty value
HasPrimaryName(g) ==
    \E b \in 1..Len(lookups) : \E i \in 1..Len(lookups[b]) :
        LET item == lookups[b][i]
        IN  /\ item.id # None
            /\ item.id[1] = DecStr(g)
            /\ \E k \in 1..Len(item.names) :
                 /\ item.names[k].type = "primary"
                 /\ \A j \in 1..(k - 1) : item.names[j].type # "primary"
                 /\ item.names[k].value # None
                 /\ item.names[k].value[1] # <<>>

\* ids some username's collection fetch returned
FetchedIds == UNION {fetched[u] : u \in DOMAIN fetched}

\* C4: in a run of main that completes, every record handed to the writer,
\* and every row written, is for an id some lookup response gave a non-empty
\* primary name; the ids without one are left out, the run still ends with
\* status 0 and no error, and every id with one is kept.
C4_Filtering ==
    (entry = "main" /\ pc = "exit" /\ Len(lookups) = Len(batches) /\ user_idx > 0
        /\ DOMAIN fetched = SeqSet(bgg_users))
    => /\ Finished
       /\ error = NoError
       /\ {games_out[i].id : i \in 1..Len(games_out)}
            = {g \in FetchedIds : HasPrimaryName(g)}
       /\ Len(snapshot.rows) = Len(games_out)
       /\ \A i \in 1..Len(games_out) : snapshot.rows[i].id = DecStr(games_out[i].id)

\* an id without a primary name beside one that has a name
C4_Witness ==
    /\ entry = "main"
    /\ Finished
    /\ Len(games_out) = 1
    /\ \E g \in FetchedIds : ~HasPrimaryName(g)

\* C5: in a run of main that completes, the owners of every record are
\* exactly the usernames whose collection fetch returned the record's id, in
\* strictly ascending order (so without duplicates); and merging a username
\* again for an id it already owns changes nothing.
C5_Owners ==
    /\ (entry = "main" /\ Finished)
       => \A i \in 1..Len(games_out) :
            LET g == games_out[i]
            IN  /\ SeqSet(g.owners) = {u \in DOMAIN fetched : g.id \in fetched[u]}
                /\ \A j, k \in 1..Len(g.owners) :
                     j < k => StrLess(g.owners[j], g.owners[k])
    /\ \A gid \in DOMAIN game_to_owners :
         /\ game_to_owners[gid] = {u \in DOMAIN fetched : gid \in fetched[u]}
         /\ \A u \in game_to_owners[gid] :
              Merge(game_to_owners, gid, u) = game_to_owners

\* b is fetched before a; one game is owned by a alone, another by both
C5_Witness ==
    /\ entry = "main"
    /\ Finished
    /\ bgg_users = << <<"b">>, <<"a">> >>
    /\ \E i, j \in 1..Len(games_out) :
         /\ games_out[i].owners = << <<"a">> >>
         /\ games_out[j].owners = << <<"a">>, <<"b">> >>

\* C6: in a run of main that completes, the records handed to the writer are
\* in ascending order of casefolded name, records with equal casefolded names
\* in ascending order of id; no id has two records; the rows written are in
\* the same order.
C6_Sorted ==
    (entry = "main" /\ Finished)
    => /\ \A i, j \in 1..Len(games_out) :
            i < j =>
              LET a == games_out[i]
                  b == games_out[j]
              IN  /\ a.id # b.id
                  /\ \/ StrLess(Casefold(a.name), Casefold(b.name))
                     \/ /\ Casefold(a.name) = Casefold(b.name)
                        /\ a.id < b.id
       /\ Len(snapshot.rows) = Len(games_out)
       /\ \A i \in 1..Len(games_out) : snapshot.rows[i].id = DecStr(games_out[i].id)

\* three records: names that differ in case only, ordered by id, after a name
\* that is smaller once casefolded and greater as written
C6_Witness ==
    /\ entry = "main"
    /\ Finished
    /\ Len(games_out) = 3
    /\ games_out[1].name = NameAq
    /\ games_out[2].name = NameCa
    /\ games_out[3].name = Nameca

Pairs(m) == {<<k, m[k]>> : k \in DOMAIN m}

\* C7: when fetch_primary_names returns for N distinct ids and chunk size B,
\* it has requested ceil(N/B) chunks, each of 1 to B of the ids, every id in
\* exactly one place of one chunk, each chunk was answered once, and the
\* mapping returned is the union of what the answers contributed.
C7_Batches ==
    (entry = "fetch_primary_names" /\ Finished)
    => LET N == Len(ids)
           B == chunk_size
           places == {<<b, j>> \in (1..Len(batches)) \X (1..B) : j <= Len(batches[b])}
       IN  /\ Len(batches) * B >= N
           /\ (Len(batches) - 1) * B < N
           /\ \A b \in 1..Len(batches) : Len(batches[b]) \in 1..B
           /\ \A i \in 1..N :
                Cardinality({p \in places : batches[p[1]][p[2]] = ids[i]}) = 1
           /\ \A p \in places : batches[p[1]][p[2]] \in SeqSet(ids)
           /\ Len(batch_results) = Len(batches)
           /\ Len(lookups) = Len(batches)
           /\ Pairs(out) = UNION {Pairs(batch_results[b]) : b \in 1..Len(batches)}

\* three ids in chunks of two: two requests, all three ids named
C7_Witness ==
    /\ entry = "fetch_primary_names"
    /\ Finished
    /\ Len(ids) = 3
    /\ chunk_size = 2
    /\ Len(batches) = 2
    /\ DOMAIN out = SeqSet(ids)

\* C8: games.js is written at most once, and only by a run that ends with
\* status 0 after every username's collection was fetched and every chunk
\* requested was answered; a run that ends with another status leaves
\* games.js as it was, absent if it was absent.
C8_NoPartialOutput ==
    /\ writes <= 1
    /\ (writes > 0 \/ snapshot # prior)
       => /\ Finished
          /\ error = NoError
          /\ DOMAIN fetched = SeqSet(bgg_users)
          /\ Len(batch_results) = Len(batches)
          /\ \A g \in FetchedIds : \E b \in 1..Len(batches) : g \in SeqSet(batches[b])
          /\ snapshot.exists
    /\ (pc = "exit" /\ exit_status # 0)
       => /\ writes = 0
          /\ snapshot = prior

\* the lookup response cannot be parsed, with an older games.js present
C8_Witness ==
    /\ pc = "exit"
    /\ exit_status = 1
    /\ error.kind = "ParseError"
    /\ url = BGG_THING_URL
    /\ prior = OldFile
    /\ snapshot = OldFile

\* C9: once main has started, an unset or empty token, a missing users.js or
\* an empty list of usernames means the run has ended with status 2, without
\* any request and without writing games.js; status 2 means nothing else.
C9_ConfigErrors ==
    LET config_error ==
            \/ token = None
            \/ token = Some(<<>>)
            \/ ~users_exists
            \/ bgg_users = <<>>
    IN  /\ (entry = "main" /\ pc # "start" /\ config_error)
           => /\ pc = "exit"
              /\ exit_status = 2
              /\ ~net_used
              /\ writes = 0
              /\ snapshot = prior
              /\ error = NoError
        /\ exit_status = 2 => config_error
        /\ token \in {None, Some(<<>>)} => ~net_used

\* an empty token, users.js present
C9_Witness ==
    /\ pc = "exit"
    /\ exit_status = 2
    /\ token = Some(<<>>)
    /\ users_exists
    /\ prior = OldFile

\* the objectid attributes that are decimal numerals of a positive integer
WellFormedPositive(o) ==
    /\ o # None
    /\ o[1] # <<>>
    /\ \A i \in 1..Len(o[1]) : o[1][i] \in DecimalChars
    /\ \E i \in 1..Len(o[1]) : o[1][i] # "0"

\* C10: when fetch_owned_game_ids_for_user has parsed a response, it has not
\* raised on an identifier, every id it returns is >= 1, no id is returned
\* twice, and the ids are those of the well-formed positive identifiers.
C10_PositiveIds ==
    (entry = "fetch_owned_game_ids_for_user" /\ pc = "exit" /\ xml_text = "xml")
    => /\ error = NoError
       /\ owned # None
       /\ \A i \in 1..Len(owned[1]) : owned[1][i] >= 1
       /\ \A i, j \in 1..Len(owned[1]) : i # j => owned[1][i] # owned[1][j]
       /\ SeqSet(owned[1])
            = {IntOf(raw_items[i][1]) :
                 i \in {n \in 1..Len(raw_items) : WellFormedPositive(raw_items[n])}}

====
